---- MODULE Spec2Model ----
(***************************************************************************)
(* A model of pirlib's Pipeline Intermediate Representation: the graph     *)
(* and package validators and the subgraph flattener of pirlib/pir.py and  *)
(* the in-process scheduler of pirlib/backends/inproc.py.                  *)
(*                                                                         *)
(* Objects.  Graph, Node, Subgraph, Input, Output, GraphInput and          *)
(* GraphOutput are records.  A DataSource is the one class of which        *)
(* flatten_graph makes several references to one object (pir.py lines 66,  *)
(* 71 and 77 assign a reference, lines 56 and 59 update the object in      *)
(* place), so DataSource objects live in a heap: the variable heap is the  *)
(* sequence of all DataSource objects made so far and a "source" field     *)
(* holds an address, an index into heap.                                   *)
(*                                                                         *)
(* Python's None is the string None below; find_by_name returns an index,  *)
(* 0 standing for None.  Field type checks (_validate_fields) are taken    *)
(* to pass: every value of the model has the type its dataclass declares.  *)
(* Entrypoint, Framework and config are opaque to every operation          *)
(* modelled here and are left out of the records.                          *)
(***************************************************************************)
EXTENDS Naturals, Sequences, FiniteSets, TLC

VARIABLES
    graphs,        \* Package.graphs, sources held as heap addresses
    heap,          \* every DataSource object made so far
    call,          \* the API call made last (or in progress)
    error,         \* the exception that call raised, OK when none
    flat,          \* the graph flatten_graph returned (execute: its local graph)
    pc,            \* execute: idle, handler (inside a handler), returned, raised
    inputs,        \* execute: the inputs map
    node_outputs,  \* execute: node name -> output name -> value
    dispatched,    \* execute: the nodes handed to _execute_node, in order
    outputs        \* execute: the map returned

vars == <<graphs, heap, call, error, flat, pc, inputs, node_outputs,
          dispatched, outputs>>

None == "<None>"

---------------------------------------------------------------------------
(* Data model                                                              *)

DataSource(n, s, o, gi) ==
    [node |-> n, subgraph |-> s, output |-> o, graph_input |-> gi]

FromNode(n, o) == DataSource(n, None, o, None)

FromSubgraph(s, o) == DataSource(None, s, o, None)

FromGraphInput(x) == DataSource(None, None, None, x)

Input(n, t, src) == [name |-> n, iotype |-> t, source |-> src]

Output(n, t) == [name |-> n, iotype |-> t]

GraphInput(n, t) == [name |-> n, iotype |-> t]

GraphOutput(n, t, src) == [name |-> n, iotype |-> t, source |-> src]

Node(n, ins, outs) == [name |-> n, inputs |-> ins, outputs |-> outs]

Subgraph(n, g, ins, outs) ==
    [name |-> n, graph |-> g, inputs |-> ins, outputs |-> outs]

Graph(n, ns, sgs, ins, outs) ==
    [name |-> n, nodes |-> ns, subgraphs |-> sgs, inputs |-> ins,
     outputs |-> outs]

NoGraph == Graph(None, <<>>, <<>>, <<>>, <<>>)

\* Exceptions: the class and the fixed part of the message; name is the
\* entity the message quotes.
Exc(t, m, n) == [type |-> t, msg |-> m, name |-> n]

OK == Exc("None", "", None)

ValidationError(m, n) == Exc("ValidationError", m, n)

\* pirlib.utils.find_by_name: the first item of that name; 0 is None.
find_by_name(items, name) ==
    IF \E i \in 1..Len(items) : items[i].name = name
    THEN CHOOSE i \in 1..Len(items) :
             /\ items[i].name = name
             /\ \A j \in 1..(i - 1) : items[j].name /= name
    ELSE 0

---------------------------------------------------------------------------
(* Construction.  A deserialised package holds one DataSource object per   *)
(* input and graph output: Load gives each source of a package written     *)
(* with its sources in place an address of its own.                        *)

AllocSources(items, h) ==
    [items |-> [k \in 1..Len(items) |->
                    [items[k] EXCEPT !.source = Len(h) + k]],
     heap |-> h \o [k \in 1..Len(items) |-> items[k].source]]

\* owners: nodes or subgraphs; each owner's inputs get fresh addresses.
AllocOwners(owners, h) ==
    LET F[k \in 0..Len(owners)] ==
            IF k = 0 THEN [items |-> <<>>, heap |-> h]
            ELSE LET prev == F[k - 1]
                     a == AllocSources(owners[k].inputs, prev.heap)
                 IN  [items |-> Append(prev.items,
                                       [owners[k] EXCEPT !.inputs = a.items]),
                      heap |-> a.heap]
    IN  F[Len(owners)]

LoadGraph(g, h) ==
    LET o == AllocSources(g.outputs, h)
        n == AllocOwners(g.nodes, o.heap)
        s == AllocOwners(g.subgraphs, n.heap)
    IN  [graph |-> [g EXCEPT !.outputs = o.items, !.nodes = n.items,
                             !.subgraphs = s.items],
         heap |-> s.heap]

Load(gs) ==
    LET F[k \in 0..Len(gs)] ==
            IF k = 0 THEN [graphs |-> <<>>, heap |-> <<>>]
            ELSE LET prev == F[k - 1]
                     r == LoadGraph(gs[k], prev.heap)
                 IN  [graphs |-> Append(prev.graphs, r.graph),
                      heap |-> r.heap]
    IN  F[Len(gs)]

\* The addresses a graph holds.
OwnerAddrs(owners) ==
    UNION {{owners[k].inputs[j].source : j \in 1..Len(owners[k].inputs)} :
           k \in 1..Len(owners)}

GraphAddrs(g) ==
    {g.outputs[k].source : k \in 1..Len(g.outputs)}
        \cup OwnerAddrs(g.nodes) \cup OwnerAddrs(g.subgraphs)

\* A graph with every address a replaced by f[a].
MapOwners(owners, f) ==
    [k \in 1..Len(owners) |->
        [owners[k] EXCEPT !.inputs =
            [j \in 1..Len(owners[k].inputs) |->
                [owners[k].inputs[j] EXCEPT !.source = f[@]]]]]

MapGraph(g, f) ==
    [g EXCEPT !.outputs = [k \in 1..Len(g.outputs) |->
                              [g.outputs[k] EXCEPT !.source = f[@]]],
              !.nodes = MapOwners(g.nodes, f),
              !.subgraphs = MapOwners(g.subgraphs, f)]

\* The graph with the DataSource values in place of their addresses: what
\* dataclass equality (==) compares.
Value(g, h) == MapGraph(g, h)

---------------------------------------------------------------------------
(* Validation of one graph                                                 *)

\* _validate_names: TRUE when some name occurs twice (the set "twice" is
\* not empty).
_validate_names(items) ==
    \E i, j \in 1..Len(items) : i < j /\ items[i].name = items[j].name

DataSource_validate(ds) ==
    LET count == (IF ds.node /= None THEN 1 ELSE 0)
                 + (IF ds.subgraph /= None THEN 1 ELSE 0)
                 + (IF ds.graph_input /= None THEN 1 ELSE 0)
    IN  IF count /= 1
        THEN ValidationError("exactly one of 'node', 'subgraph', or 'graph_input' is expected", None)
        ELSE IF (ds.node /= None \/ ds.subgraph /= None) /\ ds.output = None
        THEN ValidationError("'output' is required if either 'node' or 'subgraph' is provided", None)
        ELSE OK

\* One statement after another: the second runs when the first raised
\* nothing.
Then(e, rest) == IF e /= OK THEN e ELSE rest

\* The first exception in a sequence of outcomes, OK when there is none.
FirstError(errs) ==
    LET bad == SelectSeq(errs, LAMBDA e : e /= OK)
    IN  IF bad = <<>> THEN OK ELSE bad[1]

\* Node.validate and Subgraph.validate: inputs (each Input.validate checks
\* its source), input names, outputs, output names.
Owner_validate(v, h) ==
    LET e == FirstError([j \in 1..Len(v.inputs) |->
                            DataSource_validate(h[v.inputs[j].source])])
    IN  IF e /= OK THEN e
        ELSE IF _validate_names(v.inputs)
        THEN ValidationError("duplicate input name(s)", None)
        ELSE IF _validate_names(v.outputs)
        THEN ValidationError("duplicate output name(s)", None)
        ELSE OK

\* Graph._validate_source
_validate_source(g, h, source, iotype) ==
    LET src == h[source] IN
    IF src.graph_input /= None THEN
        LET k == find_by_name(g.inputs, src.graph_input) IN
        IF k = 0
        THEN ValidationError("reference to missing graph input", src.graph_input)
        ELSE IF g.inputs[k].iotype /= iotype
        THEN ValidationError("iotype differs from source iotype", None)
        ELSE OK
    ELSE IF src.node /= None THEN
        LET k == find_by_name(g.nodes, src.node) IN
        IF k = 0
        THEN ValidationError("reference to missing node", src.node)
        ELSE LET o == find_by_name(g.nodes[k].outputs, src.output) IN
             IF o = 0
             THEN ValidationError("reference to missing output of node", src.output)
             ELSE IF g.nodes[k].outputs[o].iotype /= iotype
             THEN ValidationError("iotype differs from source iotype", None)
             ELSE OK
    ELSE \* DataSource.validate has passed: the source names a subgraph
        LET k == find_by_name(g.subgraphs, src.subgraph) IN
        IF k = 0
        THEN ValidationError("reference to missing subgraph", src.subgraph)
        ELSE LET o == find_by_name(g.subgraphs[k].outputs, src.output) IN
             IF o = 0
             THEN ValidationError("reference to missing output of subgraph", src.output)
             ELSE IF g.subgraphs[k].outputs[o].iotype /= iotype
             THEN ValidationError("iotype differs from source iotype", None)
             ELSE OK

\* The outcomes of _validate_source over the inputs of nodes or subgraphs,
\* in the order of the loops.
OwnerSourceErrors(g, h, owners) ==
    LET F[k \in 0..Len(owners)] ==
            IF k = 0 THEN <<>>
            ELSE F[k - 1] \o [j \in 1..Len(owners[k].inputs) |->
                     _validate_source(g, h, owners[k].inputs[j].source,
                                      owners[k].inputs[j].iotype)]
    IN  F[Len(owners)]

\* A connectivity check that leaves out the inputs of subgraphs.
_validate_connectivity_of_nodes(g, h) ==
    FirstError([k \in 1..Len(g.outputs) |->
                   _validate_source(g, h, g.outputs[k].source,
                                    g.outputs[k].iotype)]
               \o OwnerSourceErrors(g, h, g.nodes))

\* Graph._validate_connectivity: graph outputs, node inputs, subgraph inputs.
_validate_connectivity(g, h) ==
    FirstError([k \in 1..Len(g.outputs) |->
                   _validate_source(g, h, g.outputs[k].source,
                                    g.outputs[k].iotype)]
               \o OwnerSourceErrors(g, h, g.nodes)
               \o OwnerSourceErrors(g, h, g.subgraphs))

\* A vertex of the acyclicity walk: a node or a subgraph of the graph, by
\* position.  idx 0 is the None a failed lookup would push.
Vertex(kind, idx) == [kind |-> kind, idx |-> idx]

Vertices(g) ==
    [k \in 1..Len(g.nodes) |-> Vertex("Node", k)]
        \o [k \in 1..Len(g.subgraphs) |-> Vertex("Subgraph", k)]

VertexItem(g, v) ==
    IF v.kind = "Node" THEN g.nodes[v.idx] ELSE g.subgraphs[v.idx]

\* The loop over item.inputs (lines 280-296): the vertices it pushes, or
\* the cycle error it raises.  "node == root" is dataclass equality; names
\* are unique when the walk runs (line 189), so two vertices are equal
\* exactly when they are the same node or the same subgraph.
PushInputs(g, h, root, item) ==
    LET F[j \in 0..Len(item.inputs)] ==
            IF j = 0 THEN [err |-> OK, push |-> <<>>]
            ELSE LET prev == F[j - 1]
                     src == h[item.inputs[j].source]
                 IN  IF prev.err /= OK THEN prev
                     ELSE IF src.node /= None THEN
                         LET v == Vertex("Node", find_by_name(g.nodes, src.node))
                         IN  IF v = root
                             THEN [err |-> ValidationError("cycle detected containing node", src.node),
                                   push |-> prev.push]
                             ELSE [err |-> OK, push |-> Append(prev.push, v)]
                     ELSE IF src.subgraph /= None THEN
                         LET v == Vertex("Subgraph",
                                         find_by_name(g.subgraphs, src.subgraph))
                         IN  IF v = root
                             THEN [err |-> ValidationError("cycle detected containing subgraph", src.subgraph),
                                   push |-> prev.push]
                             ELSE [err |-> OK, push |-> Append(prev.push, v)]
                     ELSE prev
    IN  F[Len(item.inputs)]

\* The while loop of one root (lines 270-296).  visited holds the two sets
\* visited_node_names and visited_subgraph_names.
RECURSIVE Walk(_, _, _, _, _)
Walk(g, h, root, stack, visited) ==
    IF stack = <<>> THEN [err |-> OK, visited |-> visited]
    ELSE LET item == stack[Len(stack)]
             rest == SubSeq(stack, 1, Len(stack) - 1)
         IN  IF item.idx = 0
             THEN [err |-> Exc("AttributeError", "'NoneType' object has no attribute 'inputs'", None),
                   visited |-> visited]
             ELSE IF VertexItem(g, item).name \in visited[item.kind]
             THEN Walk(g, h, root, rest, visited)
             ELSE LET p == PushInputs(g, h, root, VertexItem(g, item))
                      vis == [visited EXCEPT ![item.kind] =
                                 @ \cup {VertexItem(g, item).name}]
                  IN  IF p.err /= OK THEN [err |-> p.err, visited |-> vis]
                      ELSE Walk(g, h, root, rest \o p.push, vis)

\* Graph._validate_acyclicity: every node, then every subgraph, as root;
\* the visited sets are made once, before the loop over the roots.
_validate_acyclicity(g, h) ==
    LET roots == Vertices(g)
        F[k \in 0..Len(roots)] ==
            IF k = 0
            THEN [err |-> OK, visited |-> [Node |-> {}, Subgraph |-> {}]]
            ELSE LET prev == F[k - 1]
                 IN  IF prev.err /= OK THEN prev
                     ELSE Walk(g, h, roots[k], <<roots[k]>>, prev.visited)
    IN  F[Len(roots)].err

\* Graph.validate up to and including _validate_connectivity (lines
\* 178-202).
ValidateConnected(g, h) ==
    Then(FirstError([k \in 1..Len(g.nodes) |-> Owner_validate(g.nodes[k], h)]),
    Then(FirstError([k \in 1..Len(g.subgraphs) |->
                        Owner_validate(g.subgraphs[k], h)]),
    Then(IF _validate_names(g.nodes \o g.subgraphs)
         THEN ValidationError("duplicate node or subgraph name(s)", None)
         ELSE OK,
    Then(IF _validate_names(g.inputs)
         THEN ValidationError("duplicate graph input name(s)", None)
         ELSE OK,
    Then(FirstError([k \in 1..Len(g.outputs) |->
                        DataSource_validate(h[g.outputs[k].source])]),
    Then(IF _validate_names(g.outputs)
         THEN ValidationError("duplicate graph output name(s)", None)
         ELSE OK,
         _validate_connectivity(g, h)))))))

\* Graph.validate
Graph_validate(g, h) == Then(ValidateConnected(g, h), _validate_acyclicity(g, h))

---------------------------------------------------------------------------
(* Validation of a package                                                 *)

\* The outcomes of matching the inputs or outputs a subgraph declares
\* against those of the graph it embeds (lines 110-122, 123-135).
MatchErrors(declared, of_graph, what) ==
    [k \in 1..Len(declared) |->
        LET m == find_by_name(of_graph, declared[k].name) IN
        IF m = 0
        THEN ValidationError("subgraph " \o what \o " could not be found in graph",
                             declared[k].name)
        ELSE IF of_graph[m].iotype /= declared[k].iotype
        THEN ValidationError("subgraph " \o what \o " iotype does not match graph",
                             declared[k].name)
        ELSE OK]

\* Package._validate_subgraph
_validate_subgraph(gs, subgraph) ==
    LET k == find_by_name(gs, subgraph.graph) IN
    IF k = 0
    THEN ValidationError("subgraph refers to missing graph", subgraph.graph)
    ELSE FirstError(MatchErrors(subgraph.inputs, gs[k].inputs, "input")
                    \o MatchErrors(subgraph.outputs, gs[k].outputs, "output"))

\* _is_recursive with one list of visited names shared by the whole walk
\* (visited.append in place of visited + [...]).
RECURSIVE SharedWalk(_, _, _)
SharedWalk(gs, graph, seen) ==
    IF graph = 0 THEN [found |-> "AttributeError", seen |-> seen]
    ELSE IF gs[graph].name \in seen THEN [found |-> "True", seen |-> seen]
    ELSE LET subs == gs[graph].subgraphs
             F[k \in 0..Len(subs)] ==
                 IF k = 0
                 THEN [found |-> "False", seen |-> seen \cup {gs[graph].name}]
                 ELSE LET prev == F[k - 1]
                      IN  IF prev.found /= "False" THEN prev
                          ELSE SharedWalk(gs, find_by_name(gs, subs[k].graph),
                                          prev.seen)
         IN  F[Len(subs)]

_is_recursive_shared(gs, graph, visited) ==
    SharedWalk(gs, graph, {visited[k] : k \in 1..Len(visited)}).found

\* Package._is_recursive.  graph is an index into gs, 0 for the None that
\* find_by_name gives for a missing graph; the result is "True", "False",
\* or the AttributeError that reading None.name raises.
RECURSIVE _is_recursive(_, _, _)
_is_recursive(gs, graph, visited) ==
    IF graph = 0 THEN "AttributeError"
    ELSE IF \E k \in 1..Len(visited) : visited[k] = gs[graph].name THEN "True"
    ELSE LET path == visited \o <<gs[graph].name>>
             subs == gs[graph].subgraphs
             r == [k \in 1..Len(subs) |->
                      _is_recursive(gs, find_by_name(gs, subs[k].graph), path)]
         IN  IF \E k \in 1..Len(subs) : r[k] /= "False"
             THEN r[CHOOSE k \in 1..Len(subs) :
                        r[k] /= "False" /\ \A j \in 1..(k - 1) : r[j] = "False"]
             ELSE "False"

\* Lines 101-102: what Package.validate does with the outcome r of
\* _is_recursive.
RecursionOutcome(r) ==
    IF r = "AttributeError"
    THEN Exc("AttributeError", "'NoneType' object has no attribute 'name'", None)
    ELSE IF r = "True"
    THEN ValidationError("package contains recursive subgraphs", None)
    ELSE OK

\* The body of the loop of Package.validate for the graph at position i
\* (lines 95-102).
ValidateOne(gs, h, i) ==
    Then(Graph_validate(gs[i], h),
    Then(FirstError([k \in 1..Len(gs[i].subgraphs) |->
                        _validate_subgraph(gs, gs[i].subgraphs[k])]),
         RecursionOutcome(_is_recursive(gs, i, <<>>))))

\* Package.validate
Package_validate(gs, h) ==
    IF _validate_names(gs)
    THEN ValidationError("duplicate graph name(s)", None)
    ELSE FirstError([k \in 1..Len(gs) |-> ValidateOne(gs, h, k)])

---------------------------------------------------------------------------
(* Flattening                                                              *)

\* A copy that shares the DataSource objects of the graph it copies (a
\* shallow copy in place of copy.deepcopy).
deepcopy_shared(g, h) == [graph |-> g, heap |-> h]

\* copy.deepcopy of a graph: one new DataSource object for each one the
\* graph reaches, two references to one object staying references to one
\* object.
deepcopy(g, h) ==
    LET addrs == GraphAddrs(g)
        new == [a \in addrs |-> Len(h) + Cardinality({b \in addrs : b <= a})]
        old == [i \in 1..Cardinality(addrs) |->
                   CHOOSE a \in addrs : new[a] = Len(h) + i]
    IN  [graph |-> MapGraph(g, new),
         heap |-> h \o [i \in 1..Cardinality(addrs) |-> h[old[i]]]]

\* The source addresses of the inputs of a list of nodes, in loop order.
InputAddrs(nodes) ==
    LET F[k \in 0..Len(nodes)] ==
            IF k = 0 THEN <<>>
            ELSE F[k - 1] \o [j \in 1..Len(nodes[k].inputs) |->
                                 nodes[k].inputs[j].source]
    IN  F[Len(nodes)]

\* Lines 54-56 and 57-59: the objects at addrs, one after the other, get
\* their node field prefixed when it is set.  An object that occurs twice
\* in addrs is updated twice.
AddPrefix(h, addrs, prefix) ==
    LET F[k \in 0..Len(addrs)] ==
            IF k = 0 THEN h
            ELSE LET prev == F[k - 1]
                 IN  IF prev[addrs[k]].node /= None
                     THEN [prev EXCEPT ![addrs[k]].node = prefix \o "." \o @]
                     ELSE prev
    IN  F[Len(addrs)]

\* Lines 63-66 and 68-71: the source a parent input or output holds after
\* the loop over g.outputs.  The test of line 65 reads the source the
\* input holds at that moment.
Redirect(h, source, sub_name, g_outputs) ==
    IF h[source].subgraph = sub_name
    THEN LET F[k \in 0..Len(g_outputs)] ==
                 IF k = 0 THEN source
                 ELSE LET prev == F[k - 1]
                      IN  IF g_outputs[k].name = h[prev].output
                          THEN g_outputs[k].source
                          ELSE prev
         IN  F[Len(g_outputs)]
    ELSE source

\* Lines 74-77: the source an inlined node's input holds after the loop
\* over subgraph.inputs.
Splice(h, source, sub_inputs) ==
    IF h[source].graph_input /= None
    THEN LET F[k \in 0..Len(sub_inputs)] ==
                 IF k = 0 THEN source
                 ELSE LET prev == F[k - 1]
                      IN  IF h[prev].graph_input = sub_inputs[k].name
                          THEN sub_inputs[k].source
                          ELSE prev
         IN  F[Len(sub_inputs)]
    ELSE source

\* Lines 51-78 for one subgraph: g is the flattened embedded graph.
Merge(graph, g, h, subgraph) ==
    LET h1 == AddPrefix(h, InputAddrs(g.nodes), subgraph.name)
        h2 == AddPrefix(h1, [k \in 1..Len(g.outputs) |-> g.outputs[k].source],
                        subgraph.name)
        parent_nodes ==
            [k \in 1..Len(graph.nodes) |->
                [graph.nodes[k] EXCEPT !.inputs =
                    [j \in 1..Len(graph.nodes[k].inputs) |->
                        [graph.nodes[k].inputs[j] EXCEPT !.source =
                            Redirect(h2, @, subgraph.name, g.outputs)]]]]
        parent_outputs ==
            [k \in 1..Len(graph.outputs) |->
                [graph.outputs[k] EXCEPT !.source =
                    Redirect(h2, @, subgraph.name, g.outputs)]]
        inlined ==
            [k \in 1..Len(g.nodes) |->
                [g.nodes[k] EXCEPT
                    !.name = subgraph.name \o "." \o @,
                    !.inputs = [j \in 1..Len(g.nodes[k].inputs) |->
                                   [g.nodes[k].inputs[j] EXCEPT !.source =
                                       Splice(h2, @, subgraph.inputs)]]]]
    IN  [error |-> OK,
         graph |-> [graph EXCEPT !.nodes = parent_nodes \o inlined,
                                 !.outputs = parent_outputs],
         heap |-> h2]

\* Package.flatten_graph.  The result holds the exception raised (OK when
\* the call returns), the graph returned and the heap the call leaves.
\* depth is the nesting of the call: a chain of embeddings longer than the
\* number of graphs repeats a graph and never ends, which Python ends with
\* RecursionError.
RECURSIVE flatten_graph(_, _, _, _, _)

\* Lines 50-78 for one subgraph: prev is the outcome of the loop so far and
\* g the outcome of flattening the graph the subgraph embeds.
Inline(prev, g, subgraph) ==
    IF g.error /= OK THEN g ELSE Merge(prev.graph, g.graph, g.heap, subgraph)

\* One iteration of the loop of line 49.
MergeSubgraph(gs, prev, subgraph, depth) ==
    IF prev.error /= OK THEN prev
    ELSE Inline(prev,
                flatten_graph(gs, prev.heap, subgraph.graph, FALSE, depth + 1),
                subgraph)

\* Lines 49-78: the loop over the subgraphs of the copy c.
MergeSubgraphs(gs, c, depth) ==
    LET F[i \in 0..Len(c.graph.subgraphs)] ==
            IF i = 0 THEN [error |-> OK, graph |-> c.graph, heap |-> c.heap]
            ELSE MergeSubgraph(gs, F[i - 1], c.graph.subgraphs[i], depth)
    IN  F[Len(c.graph.subgraphs)]

\* Lines 80-82: the result validated when the caller asks for it.
Validated(result, h, validate) ==
    [error |-> IF validate THEN Graph_validate(result, h) ELSE OK,
     graph |-> result, heap |-> h]

\* Lines 79-82: r is the outcome of the loop.  A call that raises returns
\* no graph.
Finish(r, validate) ==
    IF r.error /= OK THEN r
    ELSE Validated([r.graph EXCEPT !.subgraphs = <<>>], r.heap, validate)

Raised(r) == IF r.error /= OK THEN [r EXCEPT !.graph = NoGraph] ELSE r

flatten_graph(gs, h, graph_name, validate, depth) ==
    IF depth > Len(gs)
    THEN [error |-> Exc("RecursionError", "maximum recursion depth exceeded", None),
          graph |-> NoGraph, heap |-> h]
    ELSE IF find_by_name(gs, graph_name) = 0
    THEN [error |-> Exc("ValueError", "graph not found in package", graph_name),
          graph |-> NoGraph, heap |-> h]
    ELSE Raised(Finish(MergeSubgraphs(gs,
                           deepcopy(gs[find_by_name(gs, graph_name)], h), depth),
                       validate))

---------------------------------------------------------------------------
(* The in-process scheduler (InprocBackend.execute with args = None, the   *)
(* default: the command-line adapters of lines 27-36 and 75-79 are not     *)
(* entered).                                                               *)

EmptyMap == <<>>

Put(map, key, value) == [k \in DOMAIN map \cup {key} |->
                            IF k = key THEN value ELSE map[k]]

\* Lines 52-62 for one node: whether every input is ready, and the
\* node_inputs map built on the way.  Reading inputs[...] for a key the
\* map lacks raises KeyError.
ScanInputs(h, node, ins, node_outs) ==
    LET F[j \in 0..Len(node.inputs)] ==
            IF j = 0 THEN [status |-> "ready", node_inputs |-> EmptyMap]
            ELSE LET prev == F[j - 1]
                     inp == node.inputs[j]
                     src == h[inp.source]
                     a == IF src.graph_input = None THEN prev
                          ELSE IF src.graph_input \notin DOMAIN ins
                          THEN [prev EXCEPT !.status = "KeyError"]
                          ELSE [prev EXCEPT !.node_inputs =
                                   Put(@, inp.name, ins[src.graph_input])]
                 IN  IF prev.status /= "ready" THEN prev
                     ELSE IF a.status /= "ready" \/ src.node = None THEN a
                     ELSE IF src.node \notin DOMAIN node_outs
                     THEN [a EXCEPT !.status = "break"]
                     ELSE IF src.output \notin DOMAIN node_outs[src.node]
                     THEN [a EXCEPT !.status = "break"]
                     ELSE [a EXCEPT !.node_inputs =
                              Put(@, inp.name, node_outs[src.node][src.output])]
    IN  F[Len(node.inputs)]

\* Lines 44-46
remaining_nodes(graph, node_outs) ==
    SelectSeq(graph.nodes, LAMBDA node : node.name \notin DOMAIN node_outs)

\* A scan that takes the first remaining node, ready or not.
FirstReady_unchecked(h, remaining, ins, node_outs) == 1

\* A scan that takes the last remaining node whose scan does not break.
FirstReady_last(h, remaining, ins, node_outs) ==
    LET status == [k \in 1..Len(remaining) |->
                      ScanInputs(h, remaining[k], ins, node_outs).status]
    IN  IF \E k \in 1..Len(remaining) : status[k] /= "break"
        THEN CHOOSE k \in 1..Len(remaining) :
                 /\ status[k] /= "break"
                 /\ \A j \in (k + 1)..Len(remaining) : status[j] = "break"
        ELSE 0

\* Lines 50-66: the first remaining node whose scan does not break, 0 when
\* every scan breaks.
FirstReady(h, remaining, ins, node_outs) ==
    LET status == [k \in 1..Len(remaining) |->
                      ScanInputs(h, remaining[k], ins, node_outs).status]
    IN  IF \E k \in 1..Len(remaining) : status[k] /= "break"
        THEN CHOOSE k \in 1..Len(remaining) :
                 /\ status[k] /= "break"
                 /\ \A j \in 1..(k - 1) : status[j] = "break"
        ELSE 0

\* Lines 69-74: the map execute returns, or the KeyError of a source that
\* names a node or an output that node_outputs lacks.
ResolveOutputs(h, graph, ins, node_outs) ==
    LET F[k \in 0..Len(graph.outputs)] ==
            IF k = 0 THEN [error |-> OK, outputs |-> EmptyMap]
            ELSE LET prev == F[k - 1]
                     out == graph.outputs[k]
                     src == h[out.source]
                     a == IF src.node = None THEN prev
                          ELSE IF src.node \notin DOMAIN node_outs
                          THEN [prev EXCEPT !.error = Exc("KeyError", "node_outputs", src.node)]
                          ELSE IF src.output \notin DOMAIN node_outs[src.node]
                          THEN [prev EXCEPT !.error = Exc("KeyError", "node_outputs", src.output)]
                          ELSE [prev EXCEPT !.outputs =
                                   Put(@, out.name, node_outs[src.node][src.output])]
                 IN  IF prev.error /= OK THEN prev
                     ELSE IF a.error /= OK \/ src.graph_input = None THEN a
                     ELSE IF src.graph_input \notin DOMAIN ins
                     THEN [a EXCEPT !.error = Exc("KeyError", "inputs", src.graph_input)]
                     ELSE [a EXCEPT !.outputs =
                              Put(@, out.name, ins[src.graph_input])]
    IN  F[Len(graph.outputs)]

\* The scheduler from the top of the while loop (line 43) to its next call
\* of the handler, or to the end of execute: what pc, error, dispatched and
\* outputs become.
Advance(h, graph, ins, node_outs, done) ==
    LET remaining == remaining_nodes(graph, node_outs)
        k == FirstReady(h, remaining, ins, node_outs)
        res == ResolveOutputs(h, graph, ins, node_outs)
        scan == ScanInputs(h, remaining[k], ins, node_outs)
    IN  IF remaining = <<>>
        THEN [pc |-> IF res.error = OK THEN "returned" ELSE "raised",
              error |-> res.error, dispatched |-> done,
              outputs |-> IF res.error = OK THEN res.outputs ELSE EmptyMap]
        ELSE IF k = 0
        THEN [pc |-> "raised",
              error |-> Exc("RuntimeError", "could not finish execution", None),
              dispatched |-> done, outputs |-> EmptyMap]
        ELSE IF scan.status = "KeyError"
        THEN [pc |-> "raised", error |-> Exc("KeyError", "inputs", None),
              dispatched |-> done, outputs |-> EmptyMap]
        ELSE [pc |-> "handler", error |-> OK,
              dispatched |-> Append(done, [node |-> remaining[k].name,
                                           inputs |-> scan.node_inputs]),
              outputs |-> EmptyMap]

\* No check of the inputs map.
MissingInput_unchecked(graph, ins) == 0

\* The first declared graph input the inputs map lacks, 0 when none
\* (lines 38-40).
MissingInput(graph, ins) ==
    IF \E k \in 1..Len(graph.inputs) : graph.inputs[k].name \notin DOMAIN ins
    THEN CHOOSE k \in 1..Len(graph.inputs) :
             /\ graph.inputs[k].name \notin DOMAIN ins
             /\ \A j \in 1..(k - 1) : graph.inputs[j].name \in DOMAIN ins
    ELSE 0

\* InprocBackend._execute_node when the handler returns: the outputs map,
\* with the value the handler left for each declared output.  A handler
\* that keeps the dispatcher contract leaves a value for every output.
_execute_node(node) ==
    [o \in {node.outputs[k].name : k \in 1..Len(node.outputs)} |->
        node.name \o ":" \o o]

---------------------------------------------------------------------------
(* The packages the model starts from                                      *)

NumNodes == 3

NodeNames == <<"a", "b", "c", "d">>

FlatNodes == SubSeq(NodeNames, 1, NumNodes)

\* No DataSource: marks an input that a node does not have.
Absent == DataSource(None, None, None, None)

InputsOf(first, second) ==
    IF second = Absent THEN <<Input("i", "FILE", first)>>
    ELSE <<Input("i", "FILE", first), Input("j", "FILE", second)>>

\* The graph B that the subgraphs of the packages below embed.
GraphB(b2_in, out) ==
    Graph("B",
          <<Node("b1", <<Input("i", "FILE", FromGraphInput("x"))>>,
                 <<Output("o", "FILE")>>),
            Node("b2", <<Input("i", "FILE", b2_in)>>, <<Output("o", "FILE")>>)>>,
          <<>>,
          <<GraphInput("x", "FILE")>>,
          <<GraphOutput("o", "FILE", out)>>)

\* One graph of nodes only: every node takes its input from the graph
\* input or from any node, itself included; the first node may take a
\* second input.
FlatChoices ==
    {FromGraphInput("x")} \cup {FromNode(FlatNodes[k], "o") : k \in 1..NumNodes}

FlatPackages ==
    {<<Graph("G",
             [k \in 1..NumNodes |->
                 Node(FlatNodes[k],
                      InputsOf(src[k], IF k = 1 THEN second ELSE Absent),
                      <<Output("o", "FILE")>>)],
             <<>>,
             <<GraphInput("x", "FILE")>>,
             <<GraphOutput("o", "FILE", FromNode(FlatNodes[NumNodes], "o")),
               GraphOutput("p", "FILE", FromGraphInput("x"))>>)>> :
        src \in [1..NumNodes -> FlatChoices],
        second \in FlatChoices \cup {Absent}}

\* A graph with one node and two subgraphs, s and t, that embed B: each of
\* the three takes its input from the graph input or from any of the three.
SubChoices ==
    {FromGraphInput("x"), FromNode("a", "o"), FromSubgraph("s", "o"),
     FromSubgraph("t", "o")}

SubPackages ==
    {<<Graph("G",
             <<Node("a", <<Input("i", "FILE", a_in)>>, <<Output("o", "FILE")>>)>>,
             <<Subgraph("s", "B", <<Input("x", "FILE", s_in)>>,
                        <<Output("o", "FILE")>>),
               Subgraph("t", "B", <<Input("x", "FILE", t_in)>>,
                        <<Output("o", "FILE")>>)>>,
             <<GraphInput("x", "FILE")>>,
             <<GraphOutput("o", "FILE", out)>>),
       GraphB(FromNode("b1", "o"), FromNode("b2", "o"))>> :
        a_in \in SubChoices, s_in \in SubChoices, t_in \in SubChoices,
        out \in SubChoices \ {FromGraphInput("x")}}

\* Two levels of embedding: P embeds Q as S1 and Q embeds B as S2.
DeepPackages ==
    {<<Graph("P",
             <<Node("p1", <<Input("i", "FILE", p1_in)>>, <<Output("o", "FILE")>>)>>,
             <<Subgraph("S1", "Q", <<Input("x", "FILE", S1_in)>>,
                        <<Output("o", "FILE")>>)>>,
             <<GraphInput("x", "FILE")>>,
             <<GraphOutput("o", "FILE", FromSubgraph("S1", "o"))>>),
       Graph("Q",
             <<Node("q1", <<Input("i", "FILE", q1_in)>>, <<Output("o", "FILE")>>),
               Node("q2", <<Input("i", "FILE", q2_in)>>, <<Output("o", "FILE")>>)>>,
             <<Subgraph("S2", "B", <<Input("x", "FILE", S2_in)>>,
                        <<Output("o", "FILE")>>)>>,
             <<GraphInput("x", "FILE")>>,
             <<GraphOutput("o", "FILE", Q_out)>>),
       GraphB(b2_in, B_out)>> :
        p1_in \in {FromGraphInput("x"), FromSubgraph("S1", "o")},
        S1_in \in {FromGraphInput("x"), FromNode("p1", "o")},
        q1_in \in {FromGraphInput("x"), FromSubgraph("S2", "o")},
        q2_in \in {FromGraphInput("x"), FromSubgraph("S2", "o")},
        S2_in \in {FromGraphInput("x"), FromNode("q1", "o")},
        Q_out \in {FromSubgraph("S2", "o"), FromNode("q1", "o")},
        b2_in \in {FromGraphInput("x"), FromNode("b1", "o")},
        B_out \in {FromNode("b2", "o"), FromGraphInput("x")}}

\* The iotypes the families use.
IOTypes == {"FILE", "DIRECTORY"}

\* A graph whose declarations carry any iotype: node a reads the graph
\* input, subgraph s reads a, and the graph outputs read s and a.
TypedPackages ==
    {<<Graph("T",
             <<Node("a", <<Input("i", t[2], FromGraphInput("x"))>>,
                    <<Output("o", t[3])>>)>>,
             <<Subgraph("s", "B", <<Input("x", t[4], FromNode("a", "o"))>>,
                        <<Output("o", t[5])>>)>>,
             <<GraphInput("x", t[1])>>,
             <<GraphOutput("o", t[6], FromSubgraph("s", "o")),
               GraphOutput("p", t[7], FromNode("a", "o"))>>),
       GraphB(FromNode("b1", "o"), FromNode("b2", "o"))>> :
        t \in [1..7 -> IOTypes]}

\* One level of embedding with names that tell the graphs apart: P, with
\* the inputs y and z, embeds B, with the inputs x and y, as S.  B declares
\* two outputs, r and o, in either order; an output of B may take a graph
\* input of B as it is.  S declares the inputs x and y in either order, or
\* y alone.
RouteInputs ==
    {<<Input("x", "FILE", sx), Input("y", "FILE", sy)>> :
        sx \in {FromGraphInput("y"), FromGraphInput("z")},
        sy \in {FromGraphInput("z"), FromNode("p1", "o")}}
    \cup {<<Input("y", "FILE", sy), Input("x", "FILE", sx)>> :
        sx \in {FromGraphInput("y"), FromGraphInput("z")},
        sy \in {FromGraphInput("z"), FromNode("p1", "o")}}
    \cup {<<Input("y", "FILE", sy)>> :
        sy \in {FromGraphInput("z"), FromNode("p1", "o")}}

RoutePackages ==
    {<<Graph("P",
             <<Node("p1", <<Input("i", "FILE", p1_in)>>, <<Output("o", "FILE")>>)>>,
             <<Subgraph("S", "B", S_in,
                        <<Output("r", "FILE"), Output("o", "FILE")>>)>>,
             <<GraphInput("y", "FILE"), GraphInput("z", "FILE")>>,
             <<GraphOutput("o", "FILE", FromSubgraph("S", P_out))>>),
       Graph("B",
             <<Node("b1", <<Input("i", "FILE", b1_in)>>, <<Output("o", "FILE")>>),
               Node("b2", <<Input("i", "FILE", FromNode("b1", "o"))>>,
                    <<Output("o", "FILE")>>)>>,
             <<>>,
             <<GraphInput("x", "FILE"), GraphInput("y", "FILE")>>,
             <<GraphOutput(names[1], "FILE", out1),
               GraphOutput(names[2], "FILE", out2)>>)>> :
        p1_in \in {FromSubgraph("S", "r"), FromSubgraph("S", "o"),
                   FromGraphInput("z")},
        S_in \in RouteInputs,
        P_out \in {"r", "o"},
        b1_in \in {FromGraphInput("x"), FromGraphInput("y")},
        names \in {<<"r", "o">>, <<"o", "r">>},
        out1 \in {FromNode("b1", "o"), FromNode("b2", "o"), FromGraphInput("x")},
        out2 \in {FromNode("b1", "o"), FromNode("b2", "o")}}

\* Packages of graphs that only embed: a graph holds one subgraph, without
\* inputs or outputs, for each graph name in embeds.  M is the name of no
\* graph.
Embedding(name, embeds) ==
    Graph(name, <<>>,
          [k \in 1..Len(embeds) |->
              Subgraph("S" \o embeds[k], embeds[k], <<>>, <<>>)],
          <<>>, <<>>)

EmbedNames == {"P", "Q", "B", "M"}

EmbedLists ==
    {<<>>} \cup {<<n>> : n \in EmbedNames}
        \cup {nm \in EmbedNames \X EmbedNames : nm[1] /= nm[2]}

EmbedPackages ==
    {<<Embedding("P", p), Embedding("Q", q), Embedding("B", b)>> :
        p \in EmbedLists, q \in EmbedLists, b \in EmbedLists}

\* The diamond: P embeds Q and R, which may both embed B.
DiamondPackages ==
    {<<Embedding("P", <<"Q", "R">>), Embedding("Q", q), Embedding("R", r),
       Embedding("B", b)>> :
        q \in {<<>>, <<"B">>}, r \in {<<>>, <<"B">>, <<"P">>},
        b \in {<<>>, <<"M">>, <<"Q">>}}

---------------------------------------------------------------------------
(* State and operations                                                    *)

Call(op, graph_name, validate) ==
    [op |-> op, graph_name |-> graph_name, validate |-> validate]

NoCall == Call("none", None, FALSE)

PackageAddrs(gs) == UNION {GraphAddrs(gs[k]) : k \in 1..Len(gs)}

\* The graph names a caller may pass: those of the package and M, the name
\* of no graph.
CallNames == {graphs[k].name : k \in 1..Len(graphs)} \cup {"M"}

\* Objects no reference reaches are reclaimed: of the objects made by a
\* call, the heap keeps those the returned graph g reaches, after the
\* n objects of the package.
Reclaim(g, h, n) ==
    LET live == {a \in GraphAddrs(g) : a > n}
        new == [a \in GraphAddrs(g) |->
                   IF a <= n THEN a ELSE n + Cardinality({b \in live : b <= a})]
        old == [i \in 1..Cardinality(live) |->
                   CHOOSE a \in live : new[a] = n + i]
    IN  [graph |-> MapGraph(g, new),
         heap |-> SubSeq(h, 1, n) \o [i \in 1..Cardinality(live) |-> h[old[i]]]]

InitWith(packages) ==
    /\ \E p \in packages : /\ graphs = Load(p).graphs
                           /\ heap = Load(p).heap
    /\ call = NoCall
    /\ error = OK
    /\ flat = NoGraph
    /\ pc = "idle"
    /\ inputs = EmptyMap
    /\ node_outputs = EmptyMap
    /\ dispatched = <<>>
    /\ outputs = EmptyMap

Idle == pc /= "handler"

NoExecution ==
    /\ pc' = "idle"
    /\ inputs' = EmptyMap
    /\ node_outputs' = EmptyMap
    /\ dispatched' = <<>>
    /\ outputs' = EmptyMap

\* The caller holds the graph and the objects it reaches.
Keep(kept) ==
    /\ flat' = kept.graph
    /\ heap' = kept.heap

\* flatten_graph ended with the outcome r: the caller is left with the
\* graph returned, none when the call raised.
Flattened(r) == Keep(Reclaim(r.graph, r.heap, Cardinality(PackageAddrs(graphs))))

\* The call of flatten_graph ends with the outcome r.
Ended(r) ==
    /\ Flattened(r)
    /\ error' = r.error

\* execute raises e.
Raise(e) ==
    /\ error' = e
    /\ pc' = "raised"

\* execute goes on as Advance says.
Resume(next) ==
    /\ error' = next.error
    /\ pc' = next.pc
    /\ dispatched' = next.dispatched
    /\ outputs' = next.outputs

\* Lines 25-42 of execute once flatten_graph ended with the outcome r, and
\* the loop up to the first call of a handler.
Start(r) ==
    /\ Flattened(r)
    /\ node_outputs' = EmptyMap
    /\ IF r.error /= OK
       THEN Raise(r.error) /\ dispatched' = <<>> /\ outputs' = EmptyMap
       ELSE IF MissingInput(flat', inputs') /= 0
       THEN /\ Raise(Exc("ValueError", "missing input",
                         flat'.inputs[MissingInput(flat', inputs')].name))
            /\ dispatched' = <<>>
            /\ outputs' = EmptyMap
       ELSE Resume(Advance(heap', flat', inputs', EmptyMap, <<>>))

\* graphs[k].validate()
CallGraphValidate ==
    /\ Idle
    /\ \E k \in 1..Len(graphs) :
           /\ call' = Call("Graph.validate", graphs[k].name, FALSE)
           /\ error' = Graph_validate(graphs[k], heap)
    /\ flat' = NoGraph
    /\ NoExecution
    /\ UNCHANGED <<graphs, heap>>

\* package.validate()
CallValidate ==
    /\ Idle
    /\ call' = Call("Package.validate", None, FALSE)
    /\ error' = Package_validate(graphs, heap)
    /\ flat' = NoGraph
    /\ NoExecution
    /\ UNCHANGED <<graphs, heap>>

\* package.flatten_graph(graph_name, validate)
CallFlatten ==
    /\ Idle
    /\ \E graph_name \in CallNames, validate \in BOOLEAN :
           /\ call' = Call("flatten_graph", graph_name, validate)
           /\ Ended(flatten_graph(graphs, heap, graph_name, validate, 1))
    /\ NoExecution
    /\ UNCHANGED graphs

\* backend.execute(package, graph_name, inputs=supplied) up to its first
\* call of a handler, or to its end.  A behaviour holds one run of execute.
Execute ==
    /\ pc = "idle"
    /\ \E graph_name \in CallNames, supplied \in SUBSET {"x"} :
           /\ call' = Call("execute", graph_name, TRUE)
           /\ inputs' = [x \in supplied |-> "value of " \o x]
           /\ Start(flatten_graph(graphs, heap, graph_name, TRUE, 1))
    /\ UNCHANGED graphs

\* The node whose handler is running (line 68).
Current == flat.nodes[find_by_name(flat.nodes, dispatched[Len(dispatched)].node)]

\* The handler returns: line 68 records the outputs and the loop goes on to
\* the next call of a handler or to the end of execute.
HandlerReturns ==
    /\ pc = "handler"
    /\ node_outputs' = Put(node_outputs, Current.name, _execute_node(Current))
    /\ Resume(Advance(heap, flat, inputs, node_outputs', dispatched))
    /\ UNCHANGED <<graphs, heap, call, flat, inputs>>

\* The exception of a handler caught: the node is recorded without outputs
\* and the loop goes on.
HandlerRaises_caught ==
    /\ pc = "handler"
    /\ node_outputs' = Put(node_outputs, Current.name, EmptyMap)
    /\ Resume([Advance(heap, flat, inputs, node_outputs', dispatched) EXCEPT
                  !.error = Exc("HandlerFailure", "raised by run_handler",
                                Current.name)])
    /\ UNCHANGED <<graphs, heap, call, flat, inputs>>

\* The handler raises: _execute_node and execute let the exception through.
HandlerRaises ==
    /\ pc = "handler"
    /\ Raise(Exc("HandlerFailure", "raised by run_handler", Current.name))
    /\ UNCHANGED <<graphs, heap, call, flat, inputs, node_outputs, dispatched,
                   outputs>>

\* Validation: every package, Graph.validate and Package.validate.
InitValidate == InitWith(FlatPackages \cup SubPackages \cup EmbedPackages
                             \cup DiamondPackages \cup TypedPackages)

NextValidate == CallGraphValidate \/ CallValidate

SpecValidate == InitValidate /\ [][NextValidate]_vars

\* Flattening: the packages with subgraphs.
InitFlatten == InitWith(SubPackages \cup DeepPackages)

NextFlatten == CallFlatten

SpecFlatten == InitFlatten /\ [][NextFlatten]_vars

\* Flattening one level of embedding with telling names.
InitRoute == InitWith(RoutePackages)

NextRoute == CallFlatten

SpecRoute == InitRoute /\ [][NextRoute]_vars

\* Execution.
InitExecute == InitWith(FlatPackages \cup SubPackages)

NextExecute == Execute \/ HandlerReturns \/ HandlerRaises

SpecExecute == InitExecute /\ [][NextExecute]_vars

\* Execution with a dispatcher that always returns: a handler that was
\* called returns in the end, and none raises.
NextReturning == Execute \/ HandlerReturns

SpecReturning ==
    InitExecute /\ [][NextReturning]_vars /\ WF_vars(HandlerReturns)

---------------------------------------------------------------------------
(* Claims about validation (SpecValidate)                                  *)

IsCycleError(e) ==
    /\ e.type = "ValidationError"
    /\ e.msg \in {"cycle detected containing node",
                  "cycle detected containing subgraph"}

\* The graph the last call named.
Target == graphs[find_by_name(graphs, call.graph_name)]

\* The edges of a graph: from a node or subgraph to each node or subgraph
\* that one of its inputs takes its value from.
VertexNames(g) == {VertexItem(g, v).name : v \in {Vertices(g)[k] : k \in 1..Len(Vertices(g))}}

Edges(g, h) ==
    {e \in VertexNames(g) \X VertexNames(g) :
        \E k \in 1..Len(Vertices(g)) :
            LET item == VertexItem(g, Vertices(g)[k]) IN
            /\ item.name = e[1]
            /\ \E j \in 1..Len(item.inputs) :
                   \/ h[item.inputs[j].source].node = e[2]
                   \/ h[item.inputs[j].source].subgraph = e[2]}

\* The pairs joined by a path of one edge or more.
RECURSIVE Closure(_)
Closure(R) ==
    LET more == R \cup {<<p[1][1], p[2][2]>> :
                           p \in {q \in R \X R : q[1][2] = q[2][1]}}
    IN  IF more = R THEN R ELSE Closure(more)

\* A directed cycle through two vertices or more.
HasCycle(g, h) ==
    \E e \in Closure(Edges(g, h)) :
        e[1] /= e[2] /\ <<e[2], e[1]>> \in Closure(Edges(g, h))

\* C1: Graph.validate() fails with a cycle error for every graph that is
\* otherwise valid (names unique, every source resolving with a matching
\* iotype) and holds a directed cycle of two or more nodes and subgraphs,
\* whatever the declaration order and whatever other vertices lead into
\* the cycle.
C1_CycleReported ==
    (/\ call.op = "Graph.validate"
     /\ ValidateConnected(Target, heap) = OK
     /\ HasCycle(Target, heap))
        => IsCycleError(error)

\* The embedding relation of a package: from a graph to each graph of the
\* package that one of its subgraphs names.
EmbedEdges(gs) ==
    {e \in {gs[k].name : k \in 1..Len(gs)} \X {gs[k].name : k \in 1..Len(gs)} :
        \E k \in 1..Len(gs) :
            /\ gs[k].name = e[1]
            /\ \E j \in 1..Len(gs[k].subgraphs) : gs[k].subgraphs[j].graph = e[2]}

\* Some graph embeds itself, directly or through other graphs.
SelfEmbedding(gs) == \E e \in Closure(EmbedEdges(gs)) : e[1] = e[2]

\* Some subgraph names a graph the package does not hold.
MissingGraph(gs) ==
    \E k \in 1..Len(gs) : \E j \in 1..Len(gs[k].subgraphs) :
        find_by_name(gs, gs[k].subgraphs[j].graph) = 0

\* Graph names are unique and every graph passes Graph.validate().
GraphsValid(gs, h) ==
    /\ ~_validate_names(gs)
    /\ \A k \in 1..Len(gs) : Graph_validate(gs[k], h) = OK

\* Every subgraph names a graph of the package and declares inputs and
\* outputs of that graph.
SubgraphsMatch(gs) ==
    \A k \in 1..Len(gs) : \A j \in 1..Len(gs[k].subgraphs) :
        _validate_subgraph(gs, gs[k].subgraphs[j]) = OK

RecursiveError == ValidationError("package contains recursive subgraphs", None)

\* C5: Package.validate() fails with the validation error that reports the
\* missing graph whenever a subgraph of any graph names a graph absent
\* from the package, wherever the graph of that subgraph stands in the
\* package and in the embedding hierarchy, and with no other failure.  (The
\* package has no other defect: its graphs are valid and none embeds
\* itself.)
C5_MissingGraphReported ==
    (/\ call.op = "Package.validate"
     /\ GraphsValid(graphs, heap)
     /\ ~SelfEmbedding(graphs)
     /\ MissingGraph(graphs))
        => /\ error.type = "ValidationError"
           /\ error.msg = "subgraph refers to missing graph"

\* C6: in a package whose graphs are valid and whose subgraphs all name
\* and match a graph of the package, Package.validate() fails with the
\* recursive-subgraphs error exactly when some graph embeds itself,
\* directly or through others; a graph embedded along several paths is
\* accepted.
C6_RecursiveIffSelfEmbedding ==
    (/\ call.op = "Package.validate"
     /\ GraphsValid(graphs, heap)
     /\ SubgraphsMatch(graphs))
        => /\ SelfEmbedding(graphs) => error = RecursiveError
           /\ ~SelfEmbedding(graphs) => error = OK

\* The diamond is accepted: P embeds Q and R, Q and R embed B.
C6_Witness ==
    /\ call.op = "Package.validate"
    /\ error = OK
    /\ {<<"P", "Q">>, <<"P", "R">>, <<"Q", "B">>, <<"R", "B">>}
           \subseteq EmbedEdges(graphs)

\* Names are unique where Graph.validate asks for it.
NamesValid(g) ==
    /\ ~_validate_names(g.nodes \o g.subgraphs)
    /\ ~_validate_names(g.inputs)
    /\ ~_validate_names(g.outputs)
    /\ \A k \in 1..Len(Vertices(g)) :
           /\ ~_validate_names(VertexItem(g, Vertices(g)[k]).inputs)
           /\ ~_validate_names(VertexItem(g, Vertices(g)[k]).outputs)

\* The iotypes of what a source names: of the graph input, of the output
\* of the node, or of the output of the subgraph (none when it names
\* nothing of the graph).
SourceTypes(g, src) ==
    {g.inputs[k].iotype : k \in {k \in 1..Len(g.inputs) :
                                    g.inputs[k].name = src.graph_input}}
    \cup UNION {{v.outputs[o].iotype :
                    o \in {o \in 1..Len(v.outputs) : v.outputs[o].name = src.output}} :
                v \in {VertexItem(g, Vertices(g)[k]) :
                        k \in {k \in 1..Len(Vertices(g)) :
                            IF Vertices(g)[k].kind = "Node"
                            THEN VertexItem(g, Vertices(g)[k]).name = src.node
                            ELSE VertexItem(g, Vertices(g)[k]).name = src.subgraph}}}

\* The declarations that take a value from a source: node inputs,
\* subgraph inputs and graph outputs.
Consumers(g) ==
    {g.outputs[k] : k \in 1..Len(g.outputs)}
    \cup UNION {{VertexItem(g, Vertices(g)[k]).inputs[j] :
                    j \in 1..Len(VertexItem(g, Vertices(g)[k]).inputs)} :
                k \in 1..Len(Vertices(g))}

SourcesResolve(g, h) ==
    \A c \in Consumers(g) : SourceTypes(g, h[c.source]) /= {}

TypeDiffers(g, h) ==
    \E c \in Consumers(g) : SourceTypes(g, h[c.source]) /= {c.iotype}

IsTypeError(e) ==
    /\ e.type = "ValidationError"
    /\ e.msg = "iotype differs from source iotype"

\* C12: for a graph with valid names whose sources all resolve,
\* Graph.validate() fails with the type-mismatch error exactly when a node
\* input, a subgraph input or a graph output declares an iotype that
\* differs from the iotype of what its source names; when none differs the
\* connectivity check passes (what is left is the acyclicity check).
C12_TypeMismatchIffDiffers ==
    (/\ call.op = "Graph.validate"
     /\ NamesValid(Target)
     /\ SourcesResolve(Target, heap))
        => /\ IsTypeError(error) <=> TypeDiffers(Target, heap)
           /\ ~TypeDiffers(Target, heap) => (error = OK \/ IsCycleError(error))

\* The type-mismatch error for a graph in which only the input of a
\* subgraph differs from its source.
C12_Witness ==
    /\ call.op = "Graph.validate"
    /\ IsTypeError(error)
    /\ \A c \in Consumers(Target) :
           SourceTypes(Target, heap[c.source]) /= {c.iotype}
               => c \in {Target.subgraphs[1].inputs[j] :
                            j \in 1..Len(Target.subgraphs[1].inputs)}

---------------------------------------------------------------------------
(* Claims about flattening (SpecFlatten)                                   *)

\* The package passes Package.validate() and no graph of it holds a cycle.
ValidPackage ==
    /\ Package_validate(graphs, heap) = OK
    /\ \A k \in 1..Len(graphs) : ~HasCycle(graphs[k], heap)

FlattenOf(names) ==
    /\ call.op = "flatten_graph"
    /\ call.graph_name \in names

GraphNames == {graphs[k].name : k \in 1..Len(graphs)}

\* No subgraph, and no source that names a subgraph.
SubgraphFree(g, h) ==
    /\ g.subgraphs = <<>>
    /\ \A a \in GraphAddrs(g) : h[a].subgraph = None

\* C2: for a package that passes Package.validate(), flatten_graph on any
\* of its graphs returns a graph with an empty subgraph list and no
\* FromSubgraph source in a node input or a graph output, also when one
\* subgraph takes its input from another subgraph of the same graph, in
\* either declaration order of the two.
C2_FlattenSubgraphFree ==
    (FlattenOf(GraphNames) /\ ValidPackage)
        => error = OK /\ SubgraphFree(flat, heap)

\* The names flattening is to give the nodes of a graph: its own nodes,
\* and the nodes of each embedded graph behind the name of the subgraph
\* and a dot, once for each level of nesting.
RECURSIVE ExpectedNames(_, _)
ExpectedNames(gs, name) ==
    LET g == gs[find_by_name(gs, name)]
    IN  {g.nodes[k].name : k \in 1..Len(g.nodes)}
            \cup UNION {{g.subgraphs[k].name \o "." \o n :
                            n \in ExpectedNames(gs, g.subgraphs[k].graph)} :
                        k \in 1..Len(g.subgraphs)}

NodeNamesOf(g) == {g.nodes[k].name : k \in 1..Len(g.nodes)}

\* Every FromNode source of the graph names a node of the graph.
NodeSourcesResolve(g, h) ==
    \A a \in GraphAddrs(g) : h[a].node /= None => h[a].node \in NodeNamesOf(g)

\* The graphs of the package that embed a graph which itself embeds one.
TwoLevels(gs) ==
    {gs[k].name : k \in {k \in 1..Len(gs) :
        \E j \in 1..Len(gs[k].subgraphs) :
            LET q == find_by_name(gs, gs[k].subgraphs[j].graph)
            IN  q /= 0 /\ gs[q].subgraphs /= <<>>}}

\* C3: for a package that passes Package.validate() with two levels of
\* nesting or more, flatten_graph prefixes the name of each inlined node
\* once for each level (b1 of B becomes S1.S2.b1) and every FromNode source
\* of the result, in node inputs and graph outputs, names a node of the
\* result, also when several inputs or outputs of the middle graph take
\* the same output of its subgraph.
C3_NestedPrefixes ==
    (FlattenOf(TwoLevels(graphs)) /\ ValidPackage)
        => /\ error = OK
           /\ NodeNamesOf(flat) = ExpectedNames(graphs, call.graph_name)
           /\ NodeSourcesResolve(flat, heap)

\* The package as dataclass equality sees it.
PackageValue == [k \in 1..Len(graphs) |-> Value(graphs[k], heap)]

\* C4: flatten_graph leaves the package as it was, whether it returns or
\* raises; the graph it returns shares no object with the package; and a
\* call with the arguments of the call before it ends as that call did,
\* with an equal graph.
C4_FlattenLeavesPackage ==
    [][call'.op = "flatten_graph" =>
          /\ PackageValue' = PackageValue
          /\ GraphAddrs(flat') \cap PackageAddrs(graphs') = {}
          /\ call' = call => /\ error' = error
                             /\ Value(flat', heap') = Value(flat, heap)]_vars

\* A call that inlined the nodes of an embedded graph has returned.
C4_Witness ==
    /\ call.op = "flatten_graph"
    /\ error = OK
    /\ "S1.S2.b1" \in NodeNamesOf(flat)

\* The subgraphs of the graph at position k of the package, by the sources
\* of the package: the source at address a names output out of subgraph
\* sub.
NamesSubgraphOutput(a, sub, out) ==
    /\ heap[a].subgraph = sub.name
    /\ heap[a].output = out.name

\* The DataSource an output of an embedded graph declares, as it reads
\* once the nodes of that graph carry the name of the subgraph in front.
Prefixed(sub_name, src) ==
    IF src.node /= None
    THEN [src EXCEPT !.node = sub_name \o "." \o @]
    ELSE src

\* The node inputs and graph outputs of the target graph, each with the
\* source the returned graph holds at the same place.
ParentPlaces ==
    {<<Target.outputs[k].source, heap[flat.outputs[k].source]>> :
        k \in 1..Len(Target.outputs)}
    \cup UNION {{<<Target.nodes[k].inputs[j].source,
                   heap[flat.nodes[k].inputs[j].source]>> :
                    j \in 1..Len(Target.nodes[k].inputs)} :
                k \in 1..Len(Target.nodes)}

\* C13: a node input or graph output of the parent whose source is
\* FromSubgraph(S, out) ends up, after flatten_graph, with the (prefixed)
\* DataSource that the embedded graph's output named out declares,
\* whatever the names of the embedded graph's outputs, also when another
\* output of the embedded graph bears the name of the producing node's
\* output.
C13_SubgraphOutputRedirected ==
    (FlattenOf({"P"}) /\ ValidPackage /\ error = OK /\ Len(graphs) = 2
     /\ graphs[2].subgraphs = <<>>)
        => \A place \in ParentPlaces :
               \A s \in 1..Len(Target.subgraphs) :
                   \A o \in 1..Len(graphs[2].outputs) :
                       (/\ Target.subgraphs[s].graph = graphs[2].name
                        /\ NamesSubgraphOutput(place[1], Target.subgraphs[s],
                                               graphs[2].outputs[o]))
                           => place[2] = Prefixed(Target.subgraphs[s].name,
                                                  heap[graphs[2].outputs[o].source])

\* The inputs of the nodes of the embedded graph emb, each as the source
\* the package declares for it and the source the returned graph holds for
\* the same input of the node inlined under the name of subgraph sub.
InlinedPlaces(sub, emb) ==
    UNION {{<<heap[emb.nodes[k].inputs[j].source],
              heap[flat.nodes[find_by_name(flat.nodes,
                      sub.name \o "." \o emb.nodes[k].name)].inputs[j].source]>> :
               j \in 1..Len(emb.nodes[k].inputs)} :
           k \in 1..Len(emb.nodes)}

\* C14: an input of an inlined node whose source is FromGraphInput(x) of
\* the embedded graph ends up, after flatten_graph, with the DataSource
\* that the input named x of subgraph S carries, whatever the names of the
\* inputs of S, also when that DataSource is FromGraphInput(y) of the
\* parent and S declares an input named y too.
C14_SubgraphInputSpliced ==
    (FlattenOf({"P"}) /\ ValidPackage /\ error = OK /\ Len(graphs) = 2
     /\ graphs[2].subgraphs = <<>>)
        => \A s \in 1..Len(Target.subgraphs) :
               Target.subgraphs[s].graph = graphs[2].name
                   => \A place \in InlinedPlaces(Target.subgraphs[s], graphs[2]) :
                          \A i \in 1..Len(Target.subgraphs[s].inputs) :
                              place[1].graph_input = Target.subgraphs[s].inputs[i].name
                                  => place[2] = heap[Target.subgraphs[s].inputs[i].source]

\* The sources the graph g holds, in node inputs and graph outputs.
ResultSources(g, h) ==
    {h[g.outputs[k].source] : k \in 1..Len(g.outputs)}
    \cup UNION {{h[g.nodes[k].inputs[j].source] :
                    j \in 1..Len(g.nodes[k].inputs)} :
                k \in 1..Len(g.nodes)}

InputNames(g) == {g.inputs[k].name : k \in 1..Len(g.inputs)}

\* C16: after flatten_graph on a graph of a package that passes
\* Package.validate(), every FromGraphInput source left in the returned
\* graph names a graph input of the target graph, never one of an embedded
\* graph, also when an embedded graph routes a graph input to a graph
\* output as it is and when a subgraph leaves out an input of the graph it
\* embeds.
C16_GraphInputsOfTarget ==
    (FlattenOf({"P"}) /\ ValidPackage /\ error = OK)
        => \A src \in ResultSources(flat, heap) :
               src.graph_input /= None
                   => src.graph_input \in InputNames(Target)

---------------------------------------------------------------------------
(* Claims about execution (SpecExecute)                                    *)

StuckError == Exc("RuntimeError", "could not finish execution", None)

\* execute got past flatten_graph(validate=True) and the check of the
\* inputs map: it runs a validated, flattened graph with every graph input
\* supplied.
Scheduling ==
    /\ call.op = "execute"
    /\ flat /= NoGraph
    /\ \A k \in 1..Len(flat.inputs) : flat.inputs[k].name \in DOMAIN inputs

\* C7: for a flattened graph that passed Graph.validate(), with every
\* graph input supplied and handlers that fill every declared output, the
\* scheduler never fails with "could not finish execution".
C7_NeverStuck == Scheduling => error /= StuckError

\* C8: when a graph input that the flattened graph declares has no value
\* in the inputs map, consumed by a node or not, execute fails with the
\* missing-input error before any handler is called and returns no map.
C8_MissingInputFailsFirst ==
    (/\ call.op = "execute"
     /\ \E k \in 1..Len(flat.inputs) : flat.inputs[k].name \notin DOMAIN inputs)
        => /\ pc = "raised"
           /\ error.type = "ValueError"
           /\ error.msg = "missing input"
           /\ dispatched = <<>>
           /\ node_outputs = EmptyMap
           /\ outputs = EmptyMap

C8_Witness ==
    /\ call.op = "execute"
    /\ error = Exc("ValueError", "missing input", "x")
    /\ Len(flat.nodes) > 0

\* The node of the flattened graph that was dispatched k-th.
DispatchedNode(k) == flat.nodes[find_by_name(flat.nodes, dispatched[k].node)]

\* C9: a node is dispatched only after every node that a FromNode source
\* of its inputs names was dispatched and has its outputs in node_outputs;
\* no node is dispatched twice; all nodes dispatched before the last one
\* have returned (one at a time); and when execute returns, every node of
\* the graph was dispatched exactly once.
C9_DispatchOrder ==
    call.op = "execute" =>
        /\ \A k \in 1..Len(dispatched) :
               \A j \in 1..Len(DispatchedNode(k).inputs) :
                   LET src == heap[DispatchedNode(k).inputs[j].source] IN
                   src.node /= None =>
                       /\ \E i \in 1..(k - 1) : dispatched[i].node = src.node
                       /\ src.node \in DOMAIN node_outputs
                       /\ src.output \in DOMAIN node_outputs[src.node]
        /\ \A i, k \in 1..Len(dispatched) :
               dispatched[i].node = dispatched[k].node => i = k
        /\ \A k \in 1..(Len(dispatched) - 1) :
               dispatched[k].node \in DOMAIN node_outputs
        /\ pc = "returned" =>
               /\ {dispatched[k].node : k \in 1..Len(dispatched)} = NodeNamesOf(flat)
               /\ DOMAIN node_outputs = NodeNamesOf(flat)

\* execute returned after dispatching its nodes in an order that is not
\* the declaration order.
C9_Witness ==
    /\ call.op = "execute"
    /\ pc = "returned"
    /\ Len(dispatched) > 2
    /\ dispatched[1].node /= flat.nodes[1].name

\* The names of the nodes dispatched before the k-th dispatch: the keys of
\* the produced map at that step.
ProducedBefore(k) == {dispatched[i].node : i \in 1..(k - 1)}

\* Every FromNode source of the inputs of node names a produced node.
InputsReady(node, produced) ==
    \A j \in 1..Len(node.inputs) :
        heap[node.inputs[j].source].node /= None
            => heap[node.inputs[j].source].node \in produced

\* C15: at every step of the execution loop the node dispatched is the
\* first node, in the declaration order of the graph, among the nodes not
\* yet in the produced map whose inputs are all ready; the graph and its
\* inputs therefore fix the whole dispatch order.
C15_FirstReadyInDeclarationOrder ==
    call.op = "execute" =>
        \A k \in 1..Len(dispatched) :
            /\ DispatchedNode(k).name \notin ProducedBefore(k)
            /\ InputsReady(DispatchedNode(k), ProducedBefore(k))
            /\ \A j \in 1..(find_by_name(flat.nodes, dispatched[k].node) - 1) :
                   \/ flat.nodes[j].name \in ProducedBefore(k)
                   \/ ~InputsReady(flat.nodes[j], ProducedBefore(k))

\* A step of the loop found two nodes ready at once, and one found a node
\* declared earlier not ready: the run dispatched its second node while
\* the third was ready too, after a first dispatch that passed over a node.
C15_Witness ==
    /\ call.op = "execute"
    /\ pc = "returned"
    /\ Len(flat.nodes) = 3
    /\ \E k \in 1..2 :
           \E j \in 1..3 :
               /\ j > find_by_name(flat.nodes, dispatched[k].node)
               /\ flat.nodes[j].name \notin ProducedBefore(k)
               /\ InputsReady(flat.nodes[j], ProducedBefore(k))
    /\ dispatched[1].node /= flat.nodes[1].name

\* C10: when a handler fails, execute fails with it at once: the failing
\* node is not recorded in node_outputs, no node is dispatched after it,
\* nothing is retried and no map is returned.
C10_HandlerFailureAborts ==
    [][/\ error'.type = "HandlerFailure" =>
              /\ pc' = "raised"
              /\ dispatched' = dispatched
              /\ node_outputs' = node_outputs
              /\ dispatched[Len(dispatched)].node \notin DOMAIN node_outputs'
              /\ outputs' = EmptyMap
       /\ error.type = "HandlerFailure" =>
              UNCHANGED <<pc, error, dispatched, node_outputs, outputs>>]_vars

\* A handler failed after another node had run and before the last one.
C10_Witness ==
    /\ error.type = "HandlerFailure"
    /\ pc = "raised"
    /\ Len(dispatched) > 1
    /\ Len(dispatched) < Len(flat.nodes)

\* What execute is to return: for each declared graph output, the value
\* recorded for the node output, or supplied for the graph input, that its
\* source names.
DeclaredOutputs ==
    [name \in {flat.outputs[k].name : k \in 1..Len(flat.outputs)} |->
        LET src == heap[flat.outputs[find_by_name(flat.outputs, name)].source]
        IN  IF src.node /= None
            THEN node_outputs[src.node][src.output]
            ELSE inputs[src.graph_input]]

\* C11: for a validated, flattened graph with every graph input supplied
\* and a dispatcher that always returns, execute ends by returning a map
\* whose keys are the names of the declared graph outputs, each with the
\* value its source names.
C11_ReturnsDeclaredOutputs ==
    Scheduling ~> (pc = "returned" /\ error = OK /\ outputs = DeclaredOutputs)

====
